---- MODULE Spec2Model ----
(***************************************************************************)
(* State-machine model of the vision panel (components/VisionPanel.tsx),   *)
(* the App shell that mounts it and the vision operations of the           *)
(* inference service (services/geminiService).                             *)
(*                                                                         *)
(* One action = one event handler (a click, a promise continuation, a      *)
(* timer callback) together with the React render and the effects that     *)
(* the handler's state updates cause.  Closures are modelled explicitly:   *)
(* every pending continuation carries the values of the render in which    *)
(* it was created.                                                         *)
(***************************************************************************)
EXTENDS Integers, FiniteSets, Sequences, Bags, TLC

(* ---------------- bounds of the model ---------------- *)
MaxInflight == 2      \* analysis requests outstanding at once
MaxCaptures == 2      \* canvas.toBlob callbacks pending at once
MaxPendingCam == 2    \* getUserMedia promises pending at once
MaxStreams == 2       \* camera streams acquired and not released
MaxSpeechPending == 2 \* pending promises and events of the speech panel
MaxRecorders == 2     \* media recorders recording at once

(* ---------------- program constants (time unit: 100 ms) -------------- *)
RetryDelay == 2
GestureDelay == 5
DefaultDelay == 25

Null == "null"
NullResult == [op |-> Null, image |-> Null]
NoFrame == "noframe"
Frame == "frame"
Images == {"img1", "img2"}
NotImage == "notImage"

VisionModes == {"CLASSIFICATION", "OBJECT_DETECTION", "HAND_GESTURES"}
SpeechModes == {"SPEECH_TO_TEXT", "TEXT_TO_SPEECH"}
AppMode == VisionModes \cup SpeechModes

ServiceOutcomes == {"payload", "empty", "network"}

ProcessError == "Failed to process image."
TranscribeError == "Failed to transcribe audio. Please try again."
TTSError == "Failed to convert text to speech."
MicError == "Microphone access denied or not available."
NoTranscription == "No transcription generated."
Texts == {"", "hello"}
CameraErrorMsg == "Unable to access camera. Please check permissions."

VARIABLES
  mode,           \* App.currentMode, the panel's mode prop
  source,         \* 'upload' | 'camera'
  selectedImage, previewUrl,
  isStreaming, isAutoAnalyze, cameraError, facingMode,
  isLoading, result, error,
  streamRef,      \* streamRef.current: Null or the facing of the held stream
                  \* (a held stream always has live tracks)
  videoSrc,       \* the video element exists and has a srcObject
  leaked,         \* streams acquired, never stopped, no longer referenced
  pendingCam,     \* bag of pending getUserMedia promises
  captures,       \* bag of pending canvas.toBlob callbacks
  inflight,       \* bag of outstanding analysis requests
  timers,         \* the pending setTimeout of the mounted loop effect (at most one)
  ev,             \* history: what the last step did
  quiet,          \* history: no user action since the last vision mode switch
  stragglers,     \* history: loop requests that were outstanding when the loop stopped
  clockOn, sinceEnd, gap,  \* history: time between loop capture attempts
  orderOn, latest,         \* history: the most recently issued request
  speech                   \* the speech panel: its state, recorders, pending calls

vars == << mode, source, selectedImage, previewUrl, isStreaming, isAutoAnalyze,
           cameraError, facingMode, isLoading, result, error, streamRef,
           videoSrc, leaked, pendingCam, captures, inflight, timers, ev, quiet,
           stragglers, clockOn, sinceEnd, gap, orderOn, latest, speech >>

(* ---------------- the state as one record ---------------- *)
Cur ==
  [ mode |-> mode, source |-> source, selectedImage |-> selectedImage,
    previewUrl |-> previewUrl, isStreaming |-> isStreaming,
    isAutoAnalyze |-> isAutoAnalyze, cameraError |-> cameraError,
    facingMode |-> facingMode, isLoading |-> isLoading, result |-> result,
    error |-> error, streamRef |-> streamRef, videoSrc |-> videoSrc,
    leaked |-> leaked, pendingCam |-> pendingCam, captures |-> captures,
    inflight |-> inflight, timers |-> timers, sinceEnd |-> sinceEnd, gap |-> gap,
    speech |-> speech ]

Bounded(n) ==
  /\ BagCardinality(n.inflight) <= MaxInflight
  /\ BagCardinality(n.captures) <= MaxCaptures
  /\ BagCardinality(n.pendingCam) <= MaxPendingCam
  /\ n.leaked + (IF n.streamRef = Null THEN 0 ELSE 1) <= MaxStreams
  /\ BagCardinality(n.speech.pending) <= MaxSpeechPending
  /\ n.speech.recorders <= MaxRecorders

Set(m) ==
  \E n \in {m} :
    /\ Bounded(n)
    /\ mode' = n.mode
    /\ source' = n.source
    /\ selectedImage' = n.selectedImage
    /\ previewUrl' = n.previewUrl
    /\ isStreaming' = n.isStreaming
    /\ isAutoAnalyze' = n.isAutoAnalyze
    /\ cameraError' = n.cameraError
    /\ facingMode' = n.facingMode
    /\ isLoading' = n.isLoading
    /\ result' = n.result
    /\ error' = n.error
    /\ streamRef' = n.streamRef
    /\ videoSrc' = n.videoSrc
    /\ leaked' = n.leaked
    /\ pendingCam' = n.pendingCam
    /\ captures' = n.captures
    /\ inflight' = n.inflight
    /\ timers' = n.timers
    /\ speech' = n.speech
    /\ sinceEnd' = (IF clockOn /\ n.isAutoAnalyze THEN n.sinceEnd ELSE -1)
    /\ gap' = (IF clockOn /\ n.isAutoAnalyze THEN n.gap ELSE -1)
    /\ clockOn' = clockOn
    /\ stragglers' =
         IF isAutoAnalyze /\ ~n.isAutoAnalyze
         THEN { r \in BagToSet(n.inflight) : r.by = "loop" /\ BagIn(r, inflight) }
         ELSE stragglers \cap BagToSet(n.inflight)

(* ---------------- bags of records ---------------- *)
One(r) == SetToBag({r})

RECURSIVE SumCopies(_, _)
SumCopies(S, B) ==
  IF S = {} THEN 0
  ELSE LET r == CHOOSE x \in S : TRUE
       IN  CopiesIn(r, B) + SumCopies(S \ {r}, B)


(* ---------------- the inference service (vision operations) ---------- *)
\* the payload the service produces for an operation on an image
Payload(op, image) == [op |-> op, image |-> image]

\* classifyImage / detectObjects / detectHandGestures: an empty response
\* text and a network failure both throw, anything else is parsed and returned
VisionCall(op, image, outcome) ==
  IF outcome = "payload"
  THEN [ok |-> TRUE, data |-> Payload(op, image)]
  ELSE [ok |-> FALSE, data |-> NullResult]

\* transcribeAudio: an empty response text resolves with a fixed string,
\* a network failure rejects
TranscribeAudio(outcome) ==
  IF outcome = "network" THEN [ok |-> FALSE, data |-> ""]
  ELSE [ok |-> TRUE,
        data |-> IF outcome = "payload" THEN "hello" ELSE NoTranscription]

\* synthesizeSpeech: returns the inline audio data, throws without it
SynthesizeSpeech(outcome) ==
  IF outcome = "payload" THEN [ok |-> TRUE, data |-> "audio"]
  ELSE [ok |-> FALSE, data |-> ""]

VisionOps == {"classifyImage", "detectObjects", "detectHandGestures"}
SpeechOps == {"transcribeAudio", "synthesizeSpeech"}

SpeechCall(op, outcome) ==
  IF op = "transcribeAudio" THEN TranscribeAudio(outcome)
  ELSE SynthesizeSpeech(outcome)

(* ---------------- processImage ---------------- *)
\* (mutant) the detection branch calls the classification operation
ProcessOp_m(m) ==
  IF m = "CLASSIFICATION" THEN "classifyImage"
  ELSE IF m = "OBJECT_DETECTION" THEN "classifyImage"
  ELSE IF m = "HAND_GESTURES" THEN "detectHandGestures"
  ELSE Null

\* the operation processImage calls for the mode of its closure
ProcessOp(m) ==
  IF m = "CLASSIFICATION" THEN "classifyImage"
  ELSE IF m = "OBJECT_DETECTION" THEN "detectObjects"
  ELSE IF m = "HAND_GESTURES" THEN "detectHandGestures"
  ELSE Null

\* the result is cleared at the start of processImage unless in auto mode
ClearsResult(auto) == ~auto

\* (mutant) the catch block sets the error banner in every mode
ShowsError_m(auto) == TRUE

\* the catch block sets the error banner unless in auto mode
ShowsError(auto) == ~auto

Req(image, auto, m, by, mounted, alive) ==
  [ op |-> ProcessOp(m), image |-> image, auto |-> auto, mode |-> m,
    by |-> by, mounted |-> mounted, alive |-> alive ]

NoReq == Req(Null, FALSE, Null, Null, FALSE, FALSE)

\* processImage up to its await: the state updates and the request.
\* State updates of an unmounted component are dropped by React.
ProcessImage(s, r) ==
  IF r.alive
  THEN [ s EXCEPT !.isLoading = TRUE,
                  !.result = IF ClearsResult(r.auto) THEN NullResult ELSE @,
                  !.error = Null,
                  !.inflight = @ (+) One(r) ]
  ELSE [ s EXCEPT !.inflight = @ (+) One(r) ]

(* ---------------- the auto-analyze loop ---------------- *)
Cadence(m) == IF m = "HAND_GESTURES" THEN GestureDelay ELSE DefaultDelay

MkTimer(d, cl) == [delay |-> d, remaining |-> d, cl |-> cl]

\* the values the loop effect's closure captures (its dependency list)
LoopDeps(s) ==
  [ auto |-> s.isAutoAnalyze, streaming |-> s.isStreaming,
    loading |-> s.isLoading, mode |-> s.mode ]

\* analyzeLoop's early return (its effect is mounted whenever it is called)
LoopStopped(cl) == ~cl.auto \/ ~cl.streaming

\* (mutant) analyzeLoop without its back-pressure test
LoopBusy_m(cl) == FALSE

\* analyzeLoop's back-pressure test
LoopBusy(cl) == cl.loading

\* (mutant) analyzeLoop that never schedules its next capture
Reschedules_m(mounted, auto) == FALSE

\* the guard of the next-capture setTimeout
Reschedules(mounted, auto) == mounted /\ auto

Capture(by, auto, m, blob, mounted) ==
  [ by |-> by, auto |-> auto, mode |-> m, blob |-> blob,
    mounted |-> mounted, alive |-> TRUE ]

\* captureFrame: no video or canvas element (upload source) gives null at
\* once; otherwise toBlob is pending, and yields null for a zero-dimension
\* surface (no srcObject, or metadata of the stream not yet loaded: b)
HasVideo(s) == s.source = "camera"
FrameOf(s, b) == IF s.videoSrc THEN b ELSE NoFrame

\* History of the cadence.  sinceEnd is the time since the last capture
\* attempt of the loop ended (-1: none since the loop was enabled, -2: an
\* attempt is under way); gap is the value the latest attempt started at.
\* Only attempts that run alone are measured.
Alone(s) == s.captures = EmptyBag /\ s.inflight = EmptyBag
Measured(s) == IF s.sinceEnd >= 0 THEN s.sinceEnd ELSE -1
Started(s) == IF Alone(s) THEN -2 ELSE -1
Ended(s) == IF s.sinceEnd = -2 /\ Alone(s) THEN 0 ELSE -1

\* one call of analyzeLoop with closure cl, in the mounted effect
AnalyzeLoop(s, cl, b) ==
  IF LoopStopped(cl) THEN s
  ELSE IF LoopBusy(cl)
  THEN [ s EXCEPT !.timers = {MkTimer(RetryDelay, cl)} ]
  ELSE IF HasVideo(s)
  THEN [ s EXCEPT !.captures = @ (+) One(Capture("loop", cl.auto, cl.mode,
                                                  FrameOf(s, b), TRUE)),
                  !.gap = Measured(s), !.sinceEnd = Started(s) ]
  ELSE IF Reschedules(TRUE, cl.auto)
  THEN [ s EXCEPT !.timers = {MkTimer(Cadence(cl.mode), cl)},
                  !.gap = Measured(s), !.sinceEnd = Ended([s EXCEPT !.sinceEnd = Started(s)]) ]
  ELSE s

Unmounted(r) == [r EXCEPT !.mounted = FALSE]

\* every pending continuation of the effect instance sees mounted = false
UnmountAll(B) ==
  LET S == BagToSet(B)
      T == { Unmounted(r) : r \in S }
  IN  [ t \in T |-> SumCopies({ r \in S : Unmounted(r) = t }, B) ]

\* cleanup of the loop effect: mounted = false; clearTimeout(timeoutId)
LoopCleanup(s) ==
  [ s EXCEPT !.captures = UnmountAll(@),
             !.inflight = UnmountAll(@),
             !.timers = {} ]

\* the loop effect body, run with the values of render s
LoopEffect(s, b) ==
  IF s.isAutoAnalyze THEN AnalyzeLoop(LoopCleanup(s), LoopDeps(s), b)
  ELSE LoopCleanup(s)

\* the mode effect: the updates it queues
ModeReset(s) ==
  [ s EXCEPT !.result = NullResult, !.error = Null, !.isAutoAnalyze = FALSE ]

\* Render after a handler changed the state from old to new: the effects
\* whose dependencies changed run with the values of that render; the
\* updates the mode effect queues cause a second render.
Commit(old, new, b) ==
  LET r1 == IF LoopDeps(new) # LoopDeps(old) THEN LoopEffect(new, b) ELSE new
      q  == IF new.mode # old.mode THEN ModeReset(r1) ELSE r1
  IN  IF LoopDeps(q) # LoopDeps(new) THEN LoopEffect(q, b) ELSE q

(* ---------------- camera ---------------- *)
Held(s) == IF s.streamRef = Null THEN 0 ELSE 1

\* startCamera up to its await; by records the caller: a button ("button")
\* or the facingMode effect ("flip")
StartCameraFrom(s, by) ==
  [ s EXCEPT !.cameraError = Null,
             !.pendingCam = @ (+) One([ facing |-> s.facingMode, alive |-> TRUE,
                                        by |-> by ]) ]

StartCamera(s) == StartCameraFrom(s, "button")

\* (mutant) stopCamera that toggles the streaming flag
StopCamera_m(s) ==
  [ s EXCEPT !.streamRef = Null, !.videoSrc = FALSE,
             !.isStreaming = ~@, !.isAutoAnalyze = FALSE ]

\* stopCamera: stops the tracks of the held stream, clears the refs
StopCamera(s) ==
  [ s EXCEPT !.streamRef = Null, !.videoSrc = FALSE,
             !.isStreaming = FALSE, !.isAutoAnalyze = FALSE ]

(* ---------------- initial state ---------------- *)
Other == [kind |-> "other", req |-> NoReq, ok |-> FALSE]

\* state of a freshly mounted panel (useState / useRef initial values)
Fresh(m, s) ==
  [ s EXCEPT !.mode = m, !.source = "upload", !.selectedImage = Null,
             !.previewUrl = Null, !.isStreaming = FALSE,
             !.isAutoAnalyze = FALSE, !.cameraError = Null,
             !.facingMode = "environment", !.isLoading = FALSE,
             !.result = NullResult, !.error = Null, !.streamRef = Null,
             !.videoSrc = FALSE, !.timers = {} ]

(* ---------------- history ---------------- *)
Issued(r) == [kind |-> "issue", req |-> r, ok |-> FALSE]
Responded(r, ok) == [kind |-> "response", req |-> r, ok |-> ok]
Ticked == [kind |-> "tick", req |-> NoReq, ok |-> FALSE]
\* a capture of the loop (request r never issued) produced no frame
NoFrameSeen(r) == [kind |-> "noframe", req |-> r, ok |-> FALSE]
\* getUserMedia settled for the startCamera call p of the mounted panel
Activated(p, ok) ==
  [ kind |-> IF p.by = "flip" THEN "flipcam" ELSE "camera", req |-> NoReq,
    ok |-> ok ]

\* The most recently issued analysis request among those outstanding, and
\* whether its response has arrived and succeeded; kept only while requests
\* are outstanding.
Key(r) == [op |-> r.op, image |-> r.image, by |-> r.by]
NoLatest == [key |-> Key(NoReq), done |-> FALSE]
Ordered ==
  /\ orderOn' = orderOn
  /\ latest' =
       IF ~orderOn \/ inflight' = EmptyBag THEN NoLatest
       ELSE IF ev'.kind = "issue" THEN [key |-> Key(ev'.req), done |-> FALSE]
       ELSE IF ev'.kind = "response" /\ ev'.ok /\ Key(ev'.req) = latest.key
       THEN [latest EXCEPT !.done = TRUE]
       ELSE latest

\* what a frame capture can yield in the current state
Blobs == IF videoSrc THEN {Frame, NoFrame} ELSE {NoFrame}

User(n) == Set(n) /\ ev' = Other /\ quiet' = FALSE /\ Ordered

(* ---------------- the speech panel ---------------- *)
NoCall == [op |-> Null, outcome |-> Null, ok |-> FALSE]

\* state of a freshly mounted speech panel; sp keeps what outlives the
\* panel: recorders that record and pending promises and events
FreshSpeech(sp) ==
  [ sp EXCEPT !.isRecording = FALSE, !.transcription = "",
              !.mediaRecorder = Null, !.textInput = "", !.audioUrl = Null,
              !.isLoading = FALSE, !.error = Null, !.last = NoCall ]

NoSpeech ==
  [ isRecording |-> FALSE, transcription |-> "", mediaRecorder |-> Null,
    textInput |-> "", audioUrl |-> Null, isLoading |-> FALSE, error |-> Null,
    last |-> NoCall, recorders |-> 0, pending |-> EmptyBag ]

\* a pending promise or event of the speech panel
Pend(what, alive) == [what |-> what, alive |-> alive]

Orphaned(c) == [c EXCEPT !.alive = FALSE]

\* the speech panel unmounts: its state is dropped, what is pending stays
UnmountSpeech(sp) ==
  LET S == BagToSet(sp.pending)
      T == { Orphaned(c) : c \in S }
  IN  [ FreshSpeech(sp) EXCEPT
          !.pending = [ c \in T |-> SumCopies({ d \in S : Orphaned(d) = c }, sp.pending) ] ]

\* startRecording up to its await of getUserMedia
StartRecording ==
  /\ mode = "SPEECH_TO_TEXT" /\ ~speech.isRecording /\ ~speech.isLoading
  /\ User([Cur EXCEPT !.speech.pending = @ (+) One(Pend("mic", TRUE))])

\* getUserMedia({audio}) settles: the rest of startRecording
MicResolve(c, ok) ==
  /\ c \in BagToSet(speech.pending) /\ c.what = "mic"
  /\ LET s0 == [speech EXCEPT !.pending = @ (-) One(c)]
         s1 == IF ~ok
               THEN IF c.alive THEN [s0 EXCEPT !.error = MicError] ELSE s0
               ELSE IF c.alive
               THEN [ s0 EXCEPT !.recorders = @ + 1, !.mediaRecorder = "rec",
                                !.isRecording = TRUE, !.error = Null,
                                !.transcription = "" ]
               ELSE [ s0 EXCEPT !.recorders = @ + 1 ]
     IN  User([Cur EXCEPT !.speech = s1])

\* stopRecording: stops the recorder the state refers to
StopRecording ==
  /\ mode = "SPEECH_TO_TEXT" /\ speech.isRecording /\ ~speech.isLoading
  /\ speech.mediaRecorder # Null
  /\ User([Cur EXCEPT !.speech.recorders = @ - 1,
                      !.speech.isRecording = FALSE,
                      !.speech.pending = @ (+) One(Pend("stop", TRUE))])

\* handleTranscription up to its await
HandleTranscription(sp, alive) ==
  [ sp EXCEPT !.isLoading = IF alive THEN TRUE ELSE @,
              !.pending = @ (+) One(Pend("transcribeAudio", alive)) ]

\* recorder.onstop fires
RecorderStopped(c) ==
  /\ c \in BagToSet(speech.pending) /\ c.what = "stop"
  /\ User([Cur EXCEPT !.speech =
             HandleTranscription([speech EXCEPT !.pending = @ (-) One(c)], c.alive)])

\* the TTS text area
SetTextInput(x) ==
  /\ mode = "TEXT_TO_SPEECH" /\ x \in Texts /\ x # speech.textInput
  /\ User([Cur EXCEPT !.speech.textInput = x])

\* handleTTS up to its await
HandleTTS ==
  /\ mode = "TEXT_TO_SPEECH" /\ speech.textInput # "" /\ ~speech.isLoading
  /\ User([Cur EXCEPT !.speech.isLoading = TRUE, !.speech.error = Null,
                      !.speech.audioUrl = Null,
                      !.speech.pending = @ (+) One(Pend("synthesizeSpeech", TRUE))])

\* the service settles a speech call: the rest of handleTranscription (and
\* of onstop, which releases the microphone) or of handleTTS
SpeechResponse(c, outcome) ==
  /\ c \in BagToSet(speech.pending) /\ c.what \in SpeechOps
  /\ outcome \in ServiceOutcomes
  /\ LET res == SpeechCall(c.what, outcome)
         s0 == [speech EXCEPT !.pending = @ (-) One(c)]
         s1 == IF ~res.ok
               THEN [s0 EXCEPT !.error = IF c.what = "transcribeAudio"
                                          THEN TranscribeError ELSE TTSError]
               ELSE IF c.what = "transcribeAudio"
               THEN [s0 EXCEPT !.transcription = res.data]
               ELSE [s0 EXCEPT !.audioUrl = res.data]
         s2 == [ s1 EXCEPT !.isLoading = FALSE,
                           !.last = [op |-> c.what, outcome |-> outcome,
                                     ok |-> res.ok] ]
     IN  User([Cur EXCEPT !.speech = IF c.alive THEN s2 ELSE s0])

(* ---------------- App: mode selection ---------------- *)
\* Sidebar click on another vision mode: the panel stays mounted
SwitchVisionMode(m) ==
  /\ mode \in VisionModes /\ m \in VisionModes /\ m # mode
  /\ \E b \in Blobs : Set(Commit(Cur, [Cur EXCEPT !.mode = m], b))
  /\ ev' = Other
  /\ quiet' = TRUE
  /\ Ordered

OrphanedCam(p) == [p EXCEPT !.alive = FALSE]

OrphanAll(B) ==
  LET S == BagToSet(B)
      T == { OrphanedCam(p) : p \in S }
  IN  [ t \in T |-> SumCopies({ p \in S : OrphanedCam(p) = t }, B) ]

\* Sidebar click on a speech mode: the vision panel unmounts, its effect
\* cleanups run (loop cleanup, stopCamera) and its state is dropped.
\* Pending toBlob callbacks and analysis requests of the unmounted panel
\* can only update state React has dropped: they leave the model.  A pending
\* getUserMedia still acquires a stream, so it stays.
LeaveVision(m) ==
  /\ mode \in VisionModes /\ m \in SpeechModes
  /\ User([ Fresh(m, StopCamera(LoopCleanup(Cur)))
              EXCEPT !.captures = EmptyBag,
                     !.inflight = EmptyBag,
                     !.pendingCam = OrphanAll(pendingCam),
                     !.speech = FreshSpeech(speech) ])

\* Sidebar click on a vision mode from a speech mode: a new panel mounts
EnterVision(m) ==
  /\ mode \in SpeechModes /\ m \in VisionModes
  /\ User([Fresh(m, Cur) EXCEPT !.speech = UnmountSpeech(speech)])

SwitchSpeechMode(m) ==
  /\ mode \in SpeechModes /\ m \in SpeechModes /\ m # mode
  /\ User([Cur EXCEPT !.mode = m])

(* ---------------- source toggle and upload handlers ---------------- *)
ClickUploadSource ==
  /\ mode \in VisionModes /\ source = "camera"
  /\ \E b \in Blobs :
       User(Commit(Cur, [Cur EXCEPT !.source = "upload", !.videoSrc = FALSE], b))

ClickCameraSource ==
  /\ mode \in VisionModes
  /\ \E b \in Blobs :
       User(Commit(Cur, StartCamera([Cur EXCEPT !.source = "camera"]), b))

SelectFile(s, f) ==
  [ s EXCEPT !.selectedImage = f, !.previewUrl = f,
             !.result = NullResult, !.error = Null ]

HandleFileSelect(f) ==
  /\ mode \in VisionModes /\ source = "upload" /\ previewUrl = Null
  /\ f \in Images
  /\ \E b \in Blobs : User(Commit(Cur, SelectFile(Cur, f), b))

HandleDrop(f) ==
  /\ mode \in VisionModes /\ source = "upload" /\ previewUrl = Null
  /\ f \in Images \cup {NotImage}
  /\ \E b \in Blobs :
       User(Commit(Cur, IF f \in Images THEN SelectFile(Cur, f) ELSE Cur, b))

ClearImage ==
  /\ mode \in VisionModes /\ source = "upload" /\ previewUrl # Null
  /\ \E b \in Blobs : User(Commit(Cur, SelectFile(Cur, Null), b))

\* the upload 'analyze' button: selectedImage && processImage(selectedImage)
UploadAnalyze ==
  /\ mode \in VisionModes /\ source = "upload" /\ previewUrl # Null
  /\ ~isLoading
  /\ selectedImage # Null
  /\ LET r == Req(selectedImage, isAutoAnalyze, mode, "upload", FALSE, TRUE)
     IN  /\ \E b \in Blobs : Set(Commit(Cur, ProcessImage(Cur, r), b))
         /\ ev' = Issued(r)
         /\ quiet' = FALSE
         /\ Ordered

(* ---------------- camera handlers ---------------- *)
\* 'Activate Camera' (inactive, no error) and 'Try Again' (error shown)
ActivateCamera ==
  /\ mode \in VisionModes /\ source = "camera"
  /\ (~isStreaming /\ cameraError = Null) \/ cameraError # Null
  /\ \E b \in Blobs : User(Commit(Cur, StartCamera(Cur), b))

Flipped(f) == IF f = "environment" THEN "user" ELSE "environment"

\* flip button: toggleCameraFlip, then the facingMode effect
\* (isStreaming holds wherever the button is shown)
ToggleCameraFlip ==
  /\ mode \in VisionModes /\ source = "camera" /\ isStreaming
  /\ LET f == [Cur EXCEPT !.facingMode = Flipped(@)]
     IN  \E b \in Blobs :
           User(Commit(Cur, IF f.isStreaming
                            THEN StartCameraFrom(StopCamera(f), "flip") ELSE f, b))

\* getUserMedia settles for a pending startCamera
CameraResolve(p, ok) ==
  /\ p \in BagToSet(pendingCam)
  /\ LET s0 == [Cur EXCEPT !.pendingCam = @ (-) One(p)]
         \* streamRef.current = stream overwrites the reference to a held stream
         s1 == [ s0 EXCEPT !.leaked = @ + Held(s0), !.streamRef = p.facing,
                           !.videoSrc = HasVideo(s0), !.isStreaming = TRUE ]
         s2 == [ s0 EXCEPT !.cameraError = CameraErrorMsg ]
         dead == IF ok THEN [s0 EXCEPT !.leaked = @ + 1] ELSE s0
     IN  \E b \in Blobs :
           Set(IF p.alive THEN Commit(Cur, IF ok THEN s1 ELSE s2, b) ELSE dead)
  /\ ev' = IF p.alive THEN Activated(p, ok) ELSE Other
  /\ quiet' = quiet
  /\ Ordered

\* 'Capture & Analyze': handleManualCapture up to the await of captureFrame
HandleManualCapture ==
  /\ mode \in VisionModes /\ source = "camera" /\ isStreaming
  /\ ~(isLoading \/ isAutoAnalyze)
  /\ \E b \in Blobs :
       User([ Cur EXCEPT !.captures =
                @ (+) One(Capture("manual", isAutoAnalyze, mode, FrameOf(Cur, b), FALSE)) ])

\* (mutant) the camera controls shown whether or not the camera streams
ToggleShown_m(s) == s.source = "camera"

\* the camera controls are rendered only while the camera streams
ToggleShown(s) == s.source = "camera" /\ s.isStreaming

\* the live-analyze toggle
ToggleAutoAnalyze ==
  /\ mode \in VisionModes /\ ToggleShown(Cur)
  /\ \E b \in Blobs :
       User(Commit(Cur, [Cur EXCEPT !.isAutoAnalyze = ~@], b))

(* ---------------- continuations ---------------- *)
\* the closure of the analyzeLoop call that captured a frame
LoopClosure(auto, m) ==
  [auto |-> auto, streaming |-> TRUE, loading |-> FALSE, mode |-> m]

\* the tail of analyzeLoop after its awaits
LoopTail(s, mounted, auto, m) ==
  IF Reschedules(mounted, auto)
  THEN [ s EXCEPT !.timers = {MkTimer(Cadence(m), LoopClosure(auto, m))} ]
  ELSE s

\* canvas.toBlob calls back: the rest of handleManualCapture / analyzeLoop
CaptureResolve(c) ==
  /\ c \in BagToSet(captures)
  /\ LET s0 == [Cur EXCEPT !.captures = @ (-) One(c)]
         r  == Req(c.blob, c.auto, c.mode, c.by, c.mounted, c.alive)
         s1 == ProcessImage(s0, r)
         s2 == IF c.by = "loop"
               THEN LoopTail([s0 EXCEPT !.sinceEnd = Ended(s0)],
                             c.mounted, c.auto, c.mode)
               ELSE s0
     IN  IF c.blob # NoFrame
         THEN /\ \E b \in Blobs, n \in {s1} : Set(IF c.alive THEN Commit(Cur, n, b) ELSE n)
              /\ ev' = Issued(r)
         ELSE /\ Set(s2)
              /\ ev' = IF c.by = "loop" THEN NoFrameSeen(r) ELSE Other
  /\ quiet' = quiet
  /\ Ordered

\* (mutant) processImage without its finally block
Finally_m(s) == s

\* the finally block of processImage
Finally(s) == [s EXCEPT !.isLoading = FALSE]

\* the service settles a request: the rest of processImage, then (for the
\* loop) the rest of analyzeLoop
Response(r, outcome) ==
  /\ r \in BagToSet(inflight)
  /\ outcome \in ServiceOutcomes
  /\ LET res == VisionCall(r.op, r.image, outcome)
         s0 == [Cur EXCEPT !.inflight = @ (-) One(r)]
         s1 == IF res.ok THEN [s0 EXCEPT !.result = res.data]
               ELSE IF ShowsError(r.auto) THEN [s0 EXCEPT !.error = ProcessError]
               ELSE s0
         s2 == Finally(s1)
         s3 == IF r.by = "loop"
               THEN LoopTail([s2 EXCEPT !.sinceEnd = Ended(s2)], r.mounted, r.auto, r.mode)
               ELSE s2
     IN  /\ \E b \in Blobs, n \in {IF r.alive THEN s3 ELSE s0} :
              Set(IF r.alive THEN Commit(Cur, n, b) ELSE n)
         /\ ev' = Responded(r, res.ok)
  /\ quiet' = quiet
  /\ Ordered

\* the loop's setTimeout fires: analyzeLoop runs with the closure of its effect
TimerFire ==
  /\ \E t \in timers :
       /\ clockOn => t.remaining = 0
       /\ \E b \in Blobs : Set(AnalyzeLoop([Cur EXCEPT !.timers = {}], t.cl, b))
  /\ ev' = Ticked
  /\ quiet' = quiet
  /\ Ordered

\* time passes (one unit): pending timers run down, a timer that has
\* expired may still fire late
Tick ==
  /\ clockOn
  /\ \/ \E t \in timers : t.remaining > 0
     \/ sinceEnd >= 0 /\ sinceEnd < DefaultDelay
  /\ timers' = { [t EXCEPT !.remaining = IF @ > 0 THEN @ - 1 ELSE 0] : t \in timers }
  /\ sinceEnd' = IF sinceEnd >= 0 /\ sinceEnd < DefaultDelay
                 THEN sinceEnd + 1 ELSE sinceEnd
  /\ ev' = Other
  /\ UNCHANGED << mode, source, selectedImage, previewUrl, isStreaming,
                  isAutoAnalyze, cameraError, facingMode, isLoading, result,
                  error, streamRef, videoSrc, leaked, pendingCam, captures,
                  inflight, quiet, stragglers, clockOn, gap, orderOn, latest,
                  speech >>

\* The panel with the camera active: the state the fresh panel reaches by
\* the 'Camera' source button and a successful getUserMedia
CameraActive ==
  /\ source = "camera" /\ isStreaming = TRUE
  /\ streamRef = "environment" /\ videoSrc = TRUE

CameraOff ==
  /\ source = "upload" /\ isStreaming = FALSE
  /\ streamRef = Null /\ videoSrc = FALSE

InitPanel ==
  /\ selectedImage = Null /\ previewUrl = Null
  /\ isAutoAnalyze = FALSE
  /\ cameraError = Null /\ facingMode = "environment"
  /\ isLoading = FALSE /\ result = NullResult /\ error = Null
  /\ leaked = 0
  /\ pendingCam = EmptyBag /\ captures = EmptyBag /\ inflight = EmptyBag
  /\ timers = {}
  /\ ev = Other /\ quiet = FALSE /\ stragglers = {}
  /\ sinceEnd = -1 /\ gap = -1
  /\ latest = NoLatest
  /\ speech = NoSpeech

(* ---- Spec: one analysis session (upload, manual capture, the loop) ---- *)
\* App mounts the panel with any vision mode; the session starts with the
\* fresh panel or with the camera active
Init ==
  /\ mode \in VisionModes
  /\ InitPanel
  /\ CameraOff \/ CameraActive
  /\ clockOn = FALSE /\ orderOn = FALSE

Analysis ==
  \/ HandleManualCapture
  \/ ToggleAutoAnalyze
  \/ \E c \in BagToSet(captures) : CaptureResolve(c)
  \/ \E r \in BagToSet(inflight), o \in ServiceOutcomes : Response(r, o)
  \/ TimerFire

Next ==
  \/ Analysis
  \/ ClickUploadSource
  \/ \E f \in Images : HandleFileSelect(f)
  \/ \E f \in Images \cup {NotImage} : HandleDrop(f)
  \/ ClearImage
  \/ UploadAnalyze

Spec == Init /\ [][Next]_vars

(* ---- SpecOrder: the session, with the order of the requests recorded ---- *)
InitOrder ==
  /\ mode = "CLASSIFICATION"
  /\ InitPanel
  /\ CameraOff \/ CameraActive
  /\ clockOn = FALSE /\ orderOn = TRUE

SpecOrder == InitOrder /\ [][Next]_vars

(* ---- SpecSwitch: camera analysis with switches between vision modes ---- *)
InitSwitch ==
  /\ mode = "CLASSIFICATION"
  /\ InitPanel
  /\ CameraActive
  /\ clockOn = FALSE /\ orderOn = FALSE

NextSwitch ==
  \/ Analysis
  \/ \E m \in VisionModes : SwitchVisionMode(m)

SpecSwitch == InitSwitch /\ [][NextSwitch]_vars

(* ---- SpecTimed: the loop on the active camera, with the clock ---- *)
InitTimed ==
  /\ mode \in VisionModes
  /\ InitPanel
  /\ CameraActive
  /\ clockOn = TRUE /\ orderOn = FALSE

NextTimed ==
  \/ ToggleAutoAnalyze
  \/ \E c \in BagToSet(captures) : CaptureResolve(c)
  \/ \E r \in BagToSet(inflight), o \in ServiceOutcomes : Response(r, o)
  \/ TimerFire
  \/ Tick

SpecTimed == InitTimed /\ [][NextTimed]_vars

(* ---- SpecCam: the camera lifecycle and the mounting of the panel ---- *)
InitCam ==
  /\ mode = "CLASSIFICATION"
  /\ InitPanel
  /\ CameraOff
  /\ clockOn = FALSE /\ orderOn = FALSE

NextCam ==
  \/ ClickCameraSource
  \/ ClickUploadSource
  \/ ActivateCamera
  \/ ToggleCameraFlip
  \/ \E p \in BagToSet(pendingCam), ok \in BOOLEAN : CameraResolve(p, ok)
  \/ ToggleAutoAnalyze
  \/ \E m \in SpeechModes : LeaveVision(m)
  \/ \E m \in VisionModes : EnterVision(m)
  \/ \E m \in SpeechModes : SwitchSpeechMode(m)

SpecCam == InitCam /\ [][NextCam]_vars

(* ---- SpecLive: camera analysis where pending callbacks, responses and ---- *)
(* ---- timers eventually happen                                         ---- *)
InitLive ==
  /\ mode = "HAND_GESTURES"
  /\ InitPanel
  /\ CameraActive
  /\ clockOn = FALSE /\ orderOn = FALSE

Fairness ==
  /\ WF_vars(\E c \in BagToSet(captures) : CaptureResolve(c))
  /\ WF_vars(\E r \in BagToSet(inflight), o \in ServiceOutcomes : Response(r, o))
  /\ WF_vars(TimerFire)

SpecLive == InitLive /\ [][Analysis]_vars /\ Fairness

(* ---- SpecSpeech: the speech panel, shown for both speech modes ---- *)
InitSpeech ==
  /\ mode \in SpeechModes
  /\ InitPanel
  /\ CameraOff
  /\ clockOn = FALSE /\ orderOn = FALSE

NextSpeech ==
  \/ StartRecording
  \/ \E c \in BagToSet(speech.pending), ok \in BOOLEAN : MicResolve(c, ok)
  \/ StopRecording
  \/ \E c \in BagToSet(speech.pending) : RecorderStopped(c)
  \/ \E x \in Texts : SetTextInput(x)
  \/ HandleTTS
  \/ \E c \in BagToSet(speech.pending), o \in ServiceOutcomes : SpeechResponse(c, o)
  \/ \E m \in SpeechModes : SwitchSpeechMode(m)

SpecSpeech == InitSpeech /\ [][NextSpeech]_vars

(* ======================= claims ======================= *)
SingleShot == {"manual", "upload"}
LoopRunning == isAutoAnalyze /\ isStreaming

\* C1: at most one analysis request is outstanding at any time
C1_AtMostOneOutstanding == BagCardinality(inflight) <= 1

\* C2: the response to a loop request that was outstanding when the loop
\* was stopped changes neither the result nor the error
C2_StragglerDiscarded ==
  [][ (ev'.kind = "response" /\ ev'.req \in stragglers /\ ~isAutoAnalyze)
        => (result' = result /\ error' = error) ]_vars

\* C3: while the loop is enabled and an analysis is outstanding (isLoading),
\* the loop is parked on the 200 ms retry timer with no capture of its own
\* under way, and a tick that fires then issues no capture and no request
\* and re-arms that timer
C3_Parked ==
  (LoopRunning /\ isLoading) =>
     /\ timers # {}
     /\ \A t \in timers : t.delay = RetryDelay
     /\ \A c \in BagToSet(captures) : ~c.mounted

C3_BusyTick ==
  (ev'.kind = "tick" /\ LoopRunning /\ isLoading) =>
     /\ captures' = captures
     /\ inflight' = inflight
     /\ timers' # {}
     /\ \A t \in timers' : t.delay = RetryDelay

C3_BackPressure == []C3_Parked /\ [][C3_BusyTick]_vars

C3_Witness ==
  /\ ev.kind = "tick" /\ LoopRunning /\ isLoading
  /\ BagCardinality(inflight) = 1
  /\ \E t \in timers : t.delay = RetryDelay

\* C6: no single-shot analysis (manual capture, upload analyze) issues a
\* request while the live-analyze flag is enabled
C6_NoSingleShotWhileLive ==
  [][ (ev'.kind = "issue" /\ ev'.req.by \in SingleShot) => ~isAutoAnalyze ]_vars

\* C7: a response to a request of the loop replaces the result on success;
\* on failure it leaves the result and the (empty) error banner as they are
C7_LoopResponse ==
  [][ (ev'.kind = "response" /\ ev'.req.by = "loop") =>
        IF ev'.ok
        THEN result' = Payload(ev'.req.op, ev'.req.image)
        ELSE result' = result /\ error' = error ]_vars

C7_Witness ==
  /\ ev.kind = "response" /\ ev.req.by = "loop" /\ ~ev.ok
  /\ result # NullResult /\ error = Null /\ isAutoAnalyze

\* C8: a single-shot analysis whose request fails ends with the error
\* banner set
C8_SingleShotFailureShown ==
  (ev.kind = "response" /\ ev.req.by \in SingleShot /\ ~ev.ok)
     => error = ProcessError

\* C9: a single-shot analysis in mode M issues exactly one request, to the
\* operation of M, with the selected image (the captured frame for a manual
\* capture); on success the result is the response payload
C9_Op(m) ==
  CASE m = "CLASSIFICATION" -> "classifyImage"
    [] m = "OBJECT_DETECTION" -> "detectObjects"
    [] m = "HAND_GESTURES" -> "detectHandGestures"

C9_SingleShot ==
  [][ /\ (ev'.kind = "issue" /\ ev'.req.by \in SingleShot) =>
           /\ ev'.req.op = C9_Op(mode)
           /\ ev'.req.by = "upload" => ev'.req.image = selectedImage
           /\ ev'.req.by = "manual" => ev'.req.image = Frame
           /\ inflight' = inflight (+) One(ev'.req)
      /\ (ev'.kind = "response" /\ ev'.req.by \in SingleShot /\ ev'.ok) =>
           result' = Payload(C9_Op(mode), ev'.req.image) ]_vars

C9_Witness ==
  /\ ev.kind = "response" /\ ev.ok /\ ev.req.by = "upload"
  /\ mode = "OBJECT_DETECTION"
  /\ result = Payload("detectObjects", "img2")

\* C4: a capture attempt of the loop that follows an earlier attempt starts
\* no sooner than the cadence of the mode after that attempt ended
C4_CadenceRespected == gap = -1 \/ gap >= Cadence(mode)

\* C5: after a switch between vision modes, result, error and the
\* live-analyze flag stay empty until the next user action
C5_ResetHolds ==
  quiet => (result = NullResult /\ error = Null /\ ~isAutoAnalyze)

\* C10: at most one camera stream is acquired and not released
C10_OneStream == leaked + (IF streamRef = Null THEN 0 ELSE 1) <= 1

\* C11: once the vision panel is torn down (a speech mode is shown) no
\* camera stream that the panel acquired is live
C11_NoStreamAfterTeardown ==
  mode \in SpeechModes => (leaked = 0 /\ streamRef = Null)

\* C12: a failed camera activation sets cameraError, stores no stream and
\* does not set isStreaming; a successful one stores the stream, sets
\* isStreaming and leaves cameraError null
C12_ActivationOutcome ==
  [][ (ev'.kind \in {"camera", "flipcam"}) =>
        IF ev'.ok
        THEN streamRef' # Null /\ isStreaming' /\ cameraError' = Null
        ELSE /\ cameraError' = CameraErrorMsg
             /\ streamRef' = streamRef /\ isStreaming' = isStreaming ]_vars

\* C13: the live-analyze flag is set only while the camera streams
C13_AutoImpliesStreaming == isAutoAnalyze => isStreaming

C13_Witness == isAutoAnalyze /\ isStreaming /\ facingMode = "user"

\* C14: once the loop is stopped (toggled off, camera stopped, mode
\* switched) no tick of the loop is scheduled and the loop submits no new
\* analysis request
C14_NoWorkAfterStop ==
  /\ [](~LoopRunning => timers = {})
  /\ [][ (ev'.kind = "issue" /\ ev'.req.by = "loop") => LoopRunning ]_vars

\* C15: a successful response to a request that is older than the most
\* recently issued request, whose successful response has already arrived,
\* does not change the result
C15_NewestWins ==
  [][ (ev'.kind = "response" /\ ev'.ok /\ latest.done
         /\ Key(ev'.req) # latest.key) => result' = result ]_vars

\* C16: when the activation started by a camera flip fails, cameraError is
\* set, isStreaming is false, no stream is held and facingMode keeps its value
C16_FlipFailure ==
  [][ (ev'.kind = "flipcam" /\ ~ev'.ok) =>
        /\ cameraError' = CameraErrorMsg
        /\ ~isStreaming' /\ streamRef' = Null
        /\ facingMode' = facingMode ]_vars

\* C17: stopCamera is idempotent: applied twice it gives the state it gives
\* applied once (no stream held, isStreaming and isAutoAnalyze false), and
\* applied to an inactive session it changes nothing
C17_StopIdempotent ==
  /\ StopCamera(StopCamera(Cur)) = StopCamera(Cur)
  /\ StopCamera(Cur).streamRef = Null
  /\ ~StopCamera(Cur).isStreaming /\ ~StopCamera(Cur).isAutoAnalyze
  /\ ~isStreaming => StopCamera(Cur) = Cur

\* stopCamera ran for the flip and again for the unmount of the panel
C17_Witness ==
  /\ mode \in SpeechModes /\ ~isStreaming
  /\ \E p \in BagToSet(pendingCam) : p.by = "flip" /\ ~p.alive

C18_EmptyRejects ==
  /\ \A op \in VisionOps, i \in Images \cup {Frame} :
        ~VisionCall(op, i, "empty").ok
  /\ speech.last.outcome = "empty" => ~speech.last.ok

\* C19: a switch between the two speech modes leaves the speech panel with
\* no error, no transcription, no generated audio, not recording, not loading
C19_SpeechReset ==
  [][ (mode \in SpeechModes /\ mode' \in SpeechModes /\ mode' # mode) =>
        /\ speech'.error = Null
        /\ speech'.transcription = "" /\ speech'.audioUrl = Null
        /\ ~speech'.isRecording /\ ~speech'.isLoading ]_vars

\* C22: isLoading is true exactly while an analysis request is outstanding
C22_BusyExact == isLoading <=> (inflight # EmptyBag)

\* C23: a displayed result was produced by the operation of the current mode
C23_ResultOfMode == result # NullResult => result.op = ProcessOp(mode)

\* C24: the response of an upload analysis whose image is no longer the
\* selected image (it was cleared or replaced) is not displayed
C24_StaleImageDiscarded ==
  [][ (ev'.kind = "response" /\ ev'.ok /\ ev'.req.by = "upload"
         /\ ev'.req.image # selectedImage) => result' = result ]_vars

\* C25: while the source is 'upload' no camera stream is held and the
\* live-analyze flag is false
C25_UploadMeansNoCamera ==
  (mode \in VisionModes /\ source = "upload") =>
     (streamRef = Null /\ ~isAutoAnalyze)

\* C26: cameraError is non-null only while isStreaming is false
C26_ErrorExcludesStreaming == cameraError # Null => ~isStreaming

\* pending promises and events of the speech panel of the kinds W
PendingOf(sp, W) ==
  SumCopies({ c \in BagToSet(sp.pending) : c.what \in W }, sp.pending)

\* microphone streams acquired and not released: one per recorder that
\* records, one per recorder whose onstop handler has not finished
MicHeld(sp) == sp.recorders + PendingOf(sp, {"stop", "transcribeAudio"})

\* C27: when no recording is in progress and no transcription is in flight,
\* no microphone stream is held
C27_MicReleased ==
  (~speech.isRecording /\ PendingOf(speech, {"stop", "transcribeAudio"}) = 0)
     => MicHeld(speech) = 0

\* C28: at most one speech inference request is outstanding, and isLoading
\* is true exactly while one is
C28_OneSpeechRequest ==
  /\ PendingOf(speech, SpeechOps) <= 1
  /\ speech.isLoading <=> (PendingOf(speech, SpeechOps) >= 1)

\* a capture attempt of the running loop is under way
LoopCapturing ==
  \E c \in BagToSet(captures) : c.by = "loop" /\ c.mounted

\* C21: while the loop stays enabled on the active camera, and callbacks,
\* responses and timers eventually happen, every state (in particular the
\* state after a response, and the back-pressure wait) is eventually
\* followed by a capture attempt of the loop
C21_LoopLive == LoopRunning ~> (~LoopRunning \/ LoopCapturing)

\* a request of the loop has just been answered while the loop is enabled,
\* and the loop has started its next capture attempt
C21_Witness ==
  /\ ev.kind = "response" /\ ev.req.by = "loop"
  /\ LoopRunning /\ LoopCapturing

====
